---- MODULE Spec2Model ----
(***************************************************************************)
(* Booking logic of the sports-venue application: the PL/pgSQL functions   *)
(* of supabase/migrations/003_database_functions.sql over the tables of    *)
(* 001_initial_schema.sql, executed under the row-level-security policies  *)
(* of the RLS migration (the functions are SECURITY INVOKER, so every      *)
(* query inside them sees only the rows visible to auth.uid()).            *)
(*                                                                         *)
(* Units: money in hundredths of a currency unit (DECIMAL(10,2)), price    *)
(* multipliers in hundredths (DECIMAL(3,2)), durations in tenths of an     *)
(* hour (DECIMAL(3,1)), discounts in hundredths of a percent               *)
(* (DECIMAL(5,2)), times of day in whole hours, dates as day numbers since *)
(* 1970-01-01.                                                             *)
(***************************************************************************)
EXTENDS Integers, Sequences, FiniteSets, TLC

\* ------------------------------------------------------------------ bounds
MaxRes == 2
SuffixSpace == 2

\* SQL NULL for numeric columns and variables
NULL == -1000000000

\* ------------------------------------------------------------------ fixed tables
\* profiles.role (user_role enum); roles are not changed by the booking logic
profiles == [alice |-> "customer", bob |-> "customer", sam |-> "staff"]
Users == DOMAIN profiles

VenueIds == {"v1", "v2"}
SlotIds == {"s1", "s2", "s3", "s4", "s5"}

\* venues rows: base_price, weekend_price (nullable), is_active
InitVenues ==
    [v \in VenueIds |->
        IF v = "v1"
        THEN [base_price |-> 15000000, weekend_price |-> 20000000, is_active |-> TRUE]
        ELSE [base_price |-> 10100, weekend_price |-> NULL, is_active |-> TRUE]]

\* venue_time_slots rows; s2 and s3 overlap, s4 is switched off
InitSlots ==
    [s \in SlotIds |->
        CASE s = "s1" -> [venue_id |-> "v1", start_time |-> 8, end_time |-> 9,
                          is_available |-> TRUE, price_multiplier |-> 100]
          [] s = "s2" -> [venue_id |-> "v1", start_time |-> 9, end_time |-> 10,
                          is_available |-> TRUE, price_multiplier |-> 100]
          [] s = "s3" -> [venue_id |-> "v1", start_time |-> 9, end_time |-> 11,
                          is_available |-> TRUE, price_multiplier |-> 150]
          [] s = "s4" -> [venue_id |-> "v1", start_time |-> 10, end_time |-> 11,
                          is_available |-> FALSE, price_multiplier |-> 100]
          [] OTHER    -> [venue_id |-> "v2", start_time |-> 8, end_time |-> 10,
                          is_available |-> TRUE, price_multiplier |-> 125]]

Statuses == {"pending", "confirmed", "cancelled", "completed"}
Suffixes == 0 .. (SuffixSpace - 1)

VARIABLES venues, venue_time_slots, reservations, last, txn, evals
vars == <<venues, venue_time_slots, reservations, last, txn, evals>>

\* ------------------------------------------------------------------ row-level security
is_staff_or_higher(uid) ==
    uid \in Users /\ profiles[uid] \in {"staff", "admin", "superadmin"}

\* reservations FOR SELECT: own rows, or every row for staff and higher
CanSelectReservation(uid, r) == uid = r.user_id \/ is_staff_or_higher(uid)

\* reservations FOR UPDATE ... USING: own pending rows, or every row for staff
CanUpdateReservation(uid, r) ==
    (uid = r.user_id /\ r.status = "pending") \/ is_staff_or_higher(uid)

\* reservations FOR INSERT ... WITH CHECK
CanInsertReservation(uid, user_id) == uid = user_id \/ is_staff_or_higher(uid)

CanSelectVenue(uid, v) == venues[v].is_active \/ is_staff_or_higher(uid)

CanSelectSlot(uid, s) == venue_time_slots[s].is_available \/ is_staff_or_higher(uid)

\* the ids of the reservation rows a query run by uid reads
VisibleReservations(uid, rows) ==
    {i \in 1 .. Len(rows) : CanSelectReservation(uid, rows[i])}

\* ------------------------------------------------------------------ arithmetic
\* ROUND of the numeric n/d to an integer, halves away from zero (numeric ROUND)
RoundDiv(n, d) ==
    LET m == IF n >= 0 THEN n ELSE 0 - n
        q == (m \div d) + (IF 2 * (m % d) >= d THEN 1 ELSE 0)
    IN  IF n >= 0 THEN q ELSE 0 - q

\* ROUND(a * b / c) for a >= 0, computed without leaving 32 bits:
\* a * b / c = (a div c) * b + (a mod c) * b / c, and the first summand is whole
RoundMulDiv(a, b, c) == (a \div c) * b + RoundDiv((a % c) * b, c)

\* EXTRACT(DOW FROM p_date): 0 = Sunday .. 6 = Saturday; 1970-01-01 was a Thursday
DOW(date) == (date + 4) % 7

\* ------------------------------------------------------------------ calculate_venue_price
\* rows of the time-slot query of calculate_venue_price, as seen by uid
MatchingSlots(uid, p_venue_id, p_start_time) ==
    {s \in SlotIds :
        /\ CanSelectSlot(uid, s)
        /\ venue_time_slots[s].venue_id = p_venue_id
        /\ venue_time_slots[s].start_time <= p_start_time
        /\ venue_time_slots[s].end_time > p_start_time
        /\ venue_time_slots[s].is_available}

\* LIMIT 1 without ORDER BY: any one of the matching rows, or no row at all
NoRow == "none"
LimitOne(S) == IF S = {} THEN {NoRow} ELSE S

\* SELECT COALESCE(price_multiplier, 1.0) INTO time_multiplier: with no row the
\* INTO target is set to NULL (the initial 1.0 is overwritten)
TimeMultiplier(row) ==
    IF row = NoRow THEN NULL
    ELSE IF venue_time_slots[row].price_multiplier = NULL THEN 100
    ELSE venue_time_slots[row].price_multiplier

\* the venue lookup of calculate_venue_price finds an active venue
PriceVenueFound(uid, p_venue_id) ==
    /\ p_venue_id \in VenueIds
    /\ CanSelectVenue(uid, p_venue_id)
    /\ venues[p_venue_id].is_active

\* faulty variant: the amount is rounded to whole currency units
calculate_venue_price_WholeUnits(p_venue_id, p_date, p_duration_hours, row) ==
    IF TimeMultiplier(row) = NULL THEN NULL
    ELSE 100 * RoundMulDiv(IF DOW(p_date) \in {0, 6} /\ venues[p_venue_id].weekend_price # NULL
                           THEN venues[p_venue_id].weekend_price
                           ELSE venues[p_venue_id].base_price,
                           TimeMultiplier(row) * p_duration_hours, 100000)

\* the amount returned for a found venue when the slot query returned `row`:
\* ROUND(price * multiplier * hours, 2), NULL when the multiplier is NULL
calculate_venue_price(p_venue_id, p_date, p_duration_hours, row) ==
    LET is_weekend == DOW(p_date) \in {0, 6}
        v == venues[p_venue_id]
        rate == IF is_weekend /\ v.weekend_price # NULL
                THEN v.weekend_price ELSE v.base_price
        m == TimeMultiplier(row)
    IN  IF m = NULL THEN NULL
        ELSE RoundMulDiv(rate, m * p_duration_hours, 1000)

\* ------------------------------------------------------------------ check_venue_availability
\* faulty variant: cancelled reservations keep counting as conflicts
IsActiveStatus_KeepsCancelled(st) == st \in {"confirmed", "pending", "cancelled"}

IsActiveStatus(st) == st \in {"confirmed", "pending"}

\* the overlap condition of the conflict query
Overlaps(r_start, r_end, p_start_time, p_end_time) ==
    r_start < p_end_time /\ r_end > p_start_time

NoExclude == 0

\* rows counted by the conflict query, run by uid over the table `rows`
ConflictRows(uid, rows, p_venue_id, p_date, p_start_time, p_end_time, p_exclude) ==
    {i \in VisibleReservations(uid, rows) :
        /\ rows[i].venue_id = p_venue_id
        /\ rows[i].reservation_date = p_date
        /\ IsActiveStatus(rows[i].status)
        /\ Overlaps(rows[i].start_time, rows[i].end_time, p_start_time, p_end_time)
        /\ (p_exclude = NoExclude \/ i # p_exclude)}

check_venue_availability(uid, rows, p_venue_id, p_date, p_start_time, p_end_time, p_exclude) ==
    Cardinality(ConflictRows(uid, rows, p_venue_id, p_date,
                             p_start_time, p_end_time, p_exclude)) = 0

\* ------------------------------------------------------------------ generate_reservation_code
\* the loop leaves with a code that no row visible to uid carries; the prefix
\* and the date stamp are the same for every code of one day, so a code is
\* modelled by its random suffix
CodeExists(uid, rows, code) ==
    \E i \in VisibleReservations(uid, rows) : rows[i].reservation_code = code

generate_reservation_code(uid, rows) ==
    {c \in Suffixes : ~CodeExists(uid, rows, c)}

\* ------------------------------------------------------------------ create_reservation
\* error messages (RAISE EXCEPTION texts and constraint violations)
VenueUnavailable == "Venue not found or inactive"
SlotUnavailable == "Time slot not available"
SlotAlreadyBooked == "Time slot is already booked"
RlsViolation == "new row violates row-level security policy"
NotNullViolation == "null value in column base_price violates not-null constraint"
DiscountViolation == "violates check constraint valid_discount"
TimeRangeViolation == "violates check constraint valid_time_range"
DuplicateCode == "duplicate key value violates unique constraint reservation_code"
Ok == "ok"

\* faulty variant: the venue only has to exist
VenueCheck_IgnoresActive(a) ==
    /\ a.venue_id \in VenueIds
    /\ CanSelectVenue(a.uid, a.venue_id)

\* IF NOT EXISTS (SELECT 1 FROM venues WHERE id = p_venue_id AND is_active)
VenueCheck(a) ==
    /\ a.venue_id \in VenueIds
    /\ CanSelectVenue(a.uid, a.venue_id)
    /\ venues[a.venue_id].is_active

\* faulty variant: a slot of any venue is accepted
SlotCheck_AnyVenue(a) ==
    /\ a.slot_id \in SlotIds
    /\ CanSelectSlot(a.uid, a.slot_id)
    /\ venue_time_slots[a.slot_id].is_available

\* IF NOT EXISTS (SELECT 1 FROM venue_time_slots WHERE id = .. AND venue_id = .. AND is_available)
SlotCheck(a) ==
    /\ a.slot_id \in SlotIds
    /\ CanSelectSlot(a.uid, a.slot_id)
    /\ venue_time_slots[a.slot_id].venue_id = a.venue_id
    /\ venue_time_slots[a.slot_id].is_available

\* the three validations before pricing, in the order of the function body
Validate(a, rows) ==
    IF ~VenueCheck(a) THEN VenueUnavailable
    ELSE IF ~SlotCheck(a) THEN SlotUnavailable
    ELSE IF ~check_venue_availability(a.uid, rows, a.venue_id, a.date,
                                      a.start_time, a.end_time, NoExclude)
         THEN SlotAlreadyBooked
    ELSE Ok

\* faulty variant: the discount is added instead of subtracted
TotalPrice_Surcharge(base_price, discount) ==
    IF base_price = NULL THEN NULL
    ELSE RoundMulDiv(base_price, 10000 + discount, 10000)

\* total_price := base_price * (1 - p_discount_percentage / 100), then stored
\* in a DECIMAL(10,2) column: rounded to two decimals by the INSERT
TotalPrice(base_price, discount) ==
    IF base_price = NULL THEN NULL
    ELSE RoundMulDiv(base_price, 10000 - discount, 10000)

\* faulty variant: the row is stored as confirmed
NewRow_Confirmed(a, base_price, code) ==
    [reservation_code |-> code, user_id |-> a.user_id, venue_id |-> a.venue_id,
     venue_time_slot_id |-> a.slot_id, reservation_date |-> a.date,
     start_time |-> a.start_time, end_time |-> a.end_time,
     duration_hours |-> a.duration_hours, base_price |-> base_price,
     discount_percentage |-> a.discount,
     total_price |-> TotalPrice(base_price, a.discount), status |-> "confirmed"]

\* the row the INSERT builds (status and payment_status take their defaults)
NewRow(a, base_price, code) ==
    [reservation_code |-> code,
     user_id |-> a.user_id,
     venue_id |-> a.venue_id,
     venue_time_slot_id |-> a.slot_id,
     reservation_date |-> a.date,
     start_time |-> a.start_time,
     end_time |-> a.end_time,
     duration_hours |-> a.duration_hours,
     base_price |-> base_price,
     discount_percentage |-> a.discount,
     total_price |-> TotalPrice(base_price, a.discount),
     status |-> "pending"]

\* faulty variant: the table has no valid_time_range constraint
InsertOutcome_NoRangeCheck(uid, rows, r) ==
    IF ~CanInsertReservation(uid, r.user_id) THEN RlsViolation
    ELSE IF r.base_price = NULL \/ r.total_price = NULL THEN NotNullViolation
    ELSE IF ~(r.discount_percentage >= 0 /\ r.discount_percentage <= 10000)
         THEN DiscountViolation
    ELSE IF \E i \in 1 .. Len(rows) : rows[i].reservation_code = r.reservation_code
         THEN DuplicateCode
    ELSE Ok

\* what the INSERT of row r by uid into the table `rows` does: the RLS WITH
\* CHECK, then NOT NULL, then the CHECK constraints, then the unique index
InsertOutcome(uid, rows, r) ==
    IF ~CanInsertReservation(uid, r.user_id) THEN RlsViolation
    ELSE IF r.base_price = NULL \/ r.total_price = NULL THEN NotNullViolation
    ELSE IF ~(r.discount_percentage >= 0 /\ r.discount_percentage <= 10000)
         THEN DiscountViolation
    ELSE IF ~(r.start_time < r.end_time) THEN TimeRangeViolation
    ELSE IF \E i \in 1 .. Len(rows) : rows[i].reservation_code = r.reservation_code
         THEN DuplicateCode
    ELSE Ok

\* one whole call, with the slot row the price query returned and the code the
\* generator drew; the call is a single transaction, so a failure leaves no row
CreateOutcome(a, rows, row, code) ==
    LET v == Validate(a, rows)
    IN  IF v # Ok THEN v
        ELSE InsertOutcome(a.uid, rows,
                NewRow(a, calculate_venue_price(a.venue_id, a.date, a.duration_hours, row), code))

CreateReservation(a) ==
    \E row \in LimitOne(MatchingSlots(a.uid, a.venue_id, a.start_time)) :
      \E code \in IF Validate(a, reservations) = Ok
                  THEN generate_reservation_code(a.uid, reservations) ELSE {0} :
        LET res == CreateOutcome(a, reservations, row, code)
            r == NewRow(a, calculate_venue_price(a.venue_id, a.date, a.duration_hours, row), code)
        IN  /\ res = Ok => Len(reservations) < MaxRes
            /\ reservations' = IF res = Ok THEN Append(reservations, r) ELSE reservations
            /\ last' = [op |-> "create_reservation", result |-> res]
            /\ UNCHANGED <<venues, venue_time_slots, txn, evals>>

\* ------------------------------------------------------------------ update_reservation_status
\* UPDATE reservations SET status = p_status WHERE id = p_reservation_id, run by
\* uid: the row is updated when the UPDATE policies let uid reach it; RETURN FOUND
UpdateStatusFound(uid, rows, p_reservation_id) ==
    /\ p_reservation_id \in 1 .. Len(rows)
    /\ CanSelectReservation(uid, rows[p_reservation_id])
    /\ CanUpdateReservation(uid, rows[p_reservation_id])

UpdateReservationStatus(uid, p_reservation_id, p_status) ==
    LET found == UpdateStatusFound(uid, reservations, p_reservation_id)
    IN  /\ reservations' = IF found
                           THEN [reservations EXCEPT ![p_reservation_id].status = p_status]
                           ELSE reservations
        /\ last' = [op |-> "update_reservation_status",
                    result |-> IF found THEN "true" ELSE "false"]
        /\ UNCHANGED <<venues, venue_time_slots, txn, evals>>

\* ------------------------------------------------------------------ cancel_reservation
ReservationNotFound == "Reservation not found"
Unauthorized == "Unauthorized to cancel this reservation"

\* profiles FOR SELECT: the own profile, or every profile for admins
CanSelectProfile(uid, id) ==
    uid = id \/ (uid \in Users /\ profiles[uid] \in {"admin", "superadmin"})

\* EXISTS(SELECT 1 FROM reservations WHERE id = p_reservation_id)
reservation_exists(uid, rows, p_reservation_id) ==
    p_reservation_id \in VisibleReservations(uid, rows)

\* EXISTS(.. reservations r JOIN profiles p ON p.id = p_user_id WHERE r.id = ..
\*        AND (r.user_id = p_user_id OR p.role IN ('staff','admin','superadmin')))
user_owns_reservation(uid, rows, p_reservation_id, p_user_id) ==
    /\ p_reservation_id \in VisibleReservations(uid, rows)
    /\ p_user_id \in Users
    /\ CanSelectProfile(uid, p_user_id)
    /\ \/ rows[p_reservation_id].user_id = p_user_id
       \/ profiles[p_user_id] \in {"staff", "admin", "superadmin"}

\* faulty variant: the UPDATE does not look at the status
CancelFound_AnyStatus(uid, rows, p_reservation_id) ==
    /\ p_reservation_id \in 1 .. Len(rows)
    /\ CanSelectReservation(uid, rows[p_reservation_id])
    /\ CanUpdateReservation(uid, rows[p_reservation_id])

\* the UPDATE .. WHERE id = .. AND status IN ('pending','confirmed') finds the row
CancelFound(uid, rows, p_reservation_id) ==
    /\ p_reservation_id \in 1 .. Len(rows)
    /\ CanSelectReservation(uid, rows[p_reservation_id])
    /\ CanUpdateReservation(uid, rows[p_reservation_id])
    /\ rows[p_reservation_id].status \in {"pending", "confirmed"}

CancelOutcome(uid, rows, p_reservation_id, p_user_id) ==
    IF ~reservation_exists(uid, rows, p_reservation_id) THEN ReservationNotFound
    ELSE IF ~user_owns_reservation(uid, rows, p_reservation_id, p_user_id) THEN Unauthorized
    ELSE IF CancelFound(uid, rows, p_reservation_id) THEN "true"
    ELSE "false"

CancelReservation(uid, p_reservation_id, p_user_id) ==
    LET res == CancelOutcome(uid, reservations, p_reservation_id, p_user_id)
    IN  /\ reservations' = IF res = "true"
                           THEN [reservations EXCEPT ![p_reservation_id].status = "cancelled"]
                           ELSE reservations
        /\ last' = [op |-> "cancel_reservation", result |-> res]
        /\ UNCHANGED <<venues, venue_time_slots, txn, evals>>

\* ------------------------------------------------------------------ the ledger, one call at a time
Sat == 2
Tue == 5

\* create_reservation calls as the booking form issues them for venue v1 on
\* one Saturday: the caller books for itself, the slot is the one that starts
\* at the start time, the duration is the length of the interval
FormSlot(start) == IF start = 8 THEN "s1" ELSE "s2"

LedgerRequest(u, start, end) ==
    [uid |-> u, user_id |-> u, venue_id |-> "v1", slot_id |-> FormSlot(start),
     date |-> Sat, start_time |-> start, end_time |-> end,
     duration_hours |-> 10 * (end - start), discount |-> 0]

\* a direct RPC call whose start time lies in no available slot of the venue
OffSlotRequest == LedgerRequest("alice", 11, 12)

LedgerRequests ==
    {LedgerRequest(u, k[1], k[2]) :
        u \in {"alice", "bob"}, k \in {<<8, 9>>, <<9, 10>>, <<8, 10>>}}
    \cup {OffSlotRequest}

Procs == {1, 2}
NoTxn == [pc |-> "idle"]
NoEval == [venue_id |-> "none"]
NoCall == [op |-> "none", result |-> Ok]

Init ==
    /\ venues = InitVenues
    /\ venue_time_slots = InitSlots
    /\ reservations = <<>>
    /\ last = NoCall
    /\ txn = [p \in Procs |-> NoTxn]
    /\ evals = <<NoEval, NoEval>>

Next ==
    \/ \E a \in LedgerRequests : CreateReservation(a)
    \/ \E uid \in Users, id \in 1 .. MaxRes : CancelReservation(uid, id, uid)
    \/ \E uid \in Users, id \in 1 .. MaxRes, st \in Statuses :
          UpdateReservationStatus(uid, id, st)

Spec == Init /\ [][Next]_vars

\* the ledger of a single customer, with staff acting on her reservations
OwnRequests == {a \in LedgerRequests : a.uid = "alice"}

NextOwn ==
    \/ \E a \in OwnRequests : CreateReservation(a)
    \/ \E uid \in {"alice", "sam"}, id \in 1 .. MaxRes : CancelReservation(uid, id, uid)
    \/ \E uid \in {"alice", "sam"}, id \in 1 .. MaxRes, st \in Statuses :
          UpdateReservationStatus(uid, id, st)

SpecOwn == Init /\ [][NextOwn]_vars

\* ------------------------------------------------------------------ the ledger with discounts
\* requests of one customer that differ in venue, duration and discount
MoneyRequest(v, slot, hours, disc) ==
    [uid |-> "alice", user_id |-> "alice", venue_id |-> v, slot_id |-> slot,
     date |-> Sat, start_time |-> 8, end_time |-> 9,
     duration_hours |-> hours, discount |-> disc]

MoneyRequests ==
    {MoneyRequest("v1", "s1", 5, 1000)}
    \cup {MoneyRequest("v2", "s5", 8, d) : d \in {0 - 500, 1255, 10000, 10001}}

NextMoney ==
    \/ \E a \in MoneyRequests : CreateReservation(a)
    \/ \E uid \in {"alice", "sam"}, id \in 1 .. MaxRes : CancelReservation(uid, id, uid)
    \/ \E id \in 1 .. MaxRes, st \in Statuses : UpdateReservationStatus("sam", id, st)

SpecMoney == Init /\ [][NextMoney]_vars

\* ------------------------------------------------------------------ the price calculator alone
NoPricingAvailable == "No pricing available for the selected time slot"

\* one call of calculate_venue_price by uid: the exception of the venue lookup,
\* or the amount computed from the row the slot query returned
PriceCall(uid, p_venue_id, p_date, p_start_time, p_duration_hours, row) ==
    [venue_id |-> p_venue_id, date |-> p_date, start_time |-> p_start_time,
     duration_hours |-> p_duration_hours, row |-> row,
     error |-> IF PriceVenueFound(uid, p_venue_id) THEN Ok ELSE VenueUnavailable,
     amount |-> IF PriceVenueFound(uid, p_venue_id)
                THEN calculate_venue_price(p_venue_id, p_date, p_duration_hours, row)
                ELSE NULL]

\* evals holds the two most recent evaluations, the latest last
EvalPrice(uid, p_venue_id, p_date, p_start_time, p_duration_hours) ==
    \E row \in LimitOne(MatchingSlots(uid, p_venue_id, p_start_time)) :
        /\ evals' = <<evals[2], PriceCall(uid, p_venue_id, p_date, p_start_time,
                                          p_duration_hours, row)>>
        /\ UNCHANGED <<venues, venue_time_slots, reservations, last, txn>>

Sun == 3
PriceDates == {Sat, Sun, Tue}
PriceStarts == {8, 9, 10}
PriceDurations == {5, 10, 20}

\* venue and slot tables the calculator is run against: a venue with and one
\* without weekend price, a venue switched off, a slot without multiplier
InitPrice ==
    /\ \E act \in BOOLEAN :
          venues = [InitVenues EXCEPT !["v2"].is_active = act]
    /\ \E m \in {100, NULL} :
          venue_time_slots = [InitSlots EXCEPT !["s1"].price_multiplier = m]
    /\ reservations = <<>>
    /\ last = NoCall
    /\ txn = [p \in Procs |-> NoTxn]
    /\ evals = <<NoEval, NoEval>>

NextPrice ==
    \E v \in VenueIds, d \in PriceDates, st \in PriceStarts, h \in PriceDurations :
        EvalPrice("alice", v, d, st, h)

SpecPrice == InitPrice /\ [][NextPrice]_vars

\* ------------------------------------------------------------------ concurrent create_reservation calls
\* Each call is one READ COMMITTED transaction: every statement reads the rows
\* committed when it starts, and the row of the INSERT becomes visible to the
\* other call at commit.  txn[p] is the position of call p in the function body.

\* the venue, slot and availability checks of call p with arguments a
TxnValidate(p, a) ==
    /\ txn[p].pc = "idle"
    /\ LET v == Validate(a, reservations)
       IN  txn' = [txn EXCEPT ![p] =
                      IF v = Ok THEN [pc |-> "validated", args |-> a]
                      ELSE [pc |-> "done", args |-> a, result |-> v]]
    /\ UNCHANGED <<venues, venue_time_slots, reservations, last, evals>>

\* the pricing and the code generation of call p
TxnPrepare(p) ==
    /\ txn[p].pc = "validated"
    /\ LET a == txn[p].args
       IN  \E row \in LimitOne(MatchingSlots(a.uid, a.venue_id, a.start_time)),
              code \in generate_reservation_code(a.uid, reservations) :
               txn' = [txn EXCEPT ![p] =
                          [pc |-> "prepared", args |-> a,
                           row |-> NewRow(a, calculate_venue_price(a.venue_id, a.date,
                                                 a.duration_hours, row), code)]]
    /\ UNCHANGED <<venues, venue_time_slots, reservations, last, evals>>

\* the INSERT of call p and the commit of its transaction
TxnInsert(p) ==
    /\ txn[p].pc = "prepared"
    /\ LET a == txn[p].args
           res == InsertOutcome(a.uid, reservations, txn[p].row)
       IN  /\ reservations' = IF res = Ok THEN Append(reservations, txn[p].row)
                              ELSE reservations
           /\ txn' = [txn EXCEPT ![p] = [pc |-> "done", args |-> a, result |-> res]]
    /\ UNCHANGED <<venues, venue_time_slots, last, evals>>

\* both calls come from the same customer (two tabs, a double submit), so
\* row-level security hides no row from either of them
ConcRequests == {a \in LedgerRequests : a.uid = "alice"}

NextConc ==
    \/ \E p \in Procs, a \in ConcRequests : TxnValidate(p, a)
    \/ \E p \in Procs : TxnPrepare(p)
    \/ \E p \in Procs : TxnInsert(p)

SpecConc == Init /\ [][NextConc]_vars

\* ------------------------------------------------------------------ the availability evaluator on the ledger
\* check_venue_availability called over RPC by uid (four arguments, nothing excluded)
CheckAvailability(uid, p_venue_id, p_date, p_start_time, p_end_time) ==
    /\ last' = [op |-> "check_venue_availability",
                result |-> IF check_venue_availability(uid, reservations, p_venue_id, p_date,
                                                       p_start_time, p_end_time, NoExclude)
                           THEN "true" ELSE "false"]
    /\ UNCHANGED <<venues, venue_time_slots, reservations, txn, evals>>

AvailCallers == {"bob", "sam"}
AvailIntervals == {<<8, 9>>, <<9, 10>>, <<8, 10>>, <<9, 11>>}

NextAvail ==
    \/ Next
    \/ \E uid \in AvailCallers, v \in VenueIds, d \in {Sat, Tue}, k \in AvailIntervals :
          CheckAvailability(uid, v, d, k[1], k[2])

SpecAvail == Init /\ [][NextAvail]_vars

\* ------------------------------------------------------------------ create_reservation, statement by statement
\* direct RPC calls with arbitrary arguments: unknown or inactive venue, unknown,
\* foreign or switched-off slot, a start time outside every slot
CallRequest(u, v, slot, start, end) ==
    [uid |-> u, user_id |-> "alice", venue_id |-> v, slot_id |-> slot,
     date |-> Sat, start_time |-> start, end_time |-> end,
     duration_hours |-> 10, discount |-> 0]

\* a customer booking for somebody else, an empty interval, a discount above 100
ForeignUserRequest == [CallRequest("alice", "v1", "s1", 8, 9) EXCEPT !.user_id = "bob"]
EmptyRangeRequest == CallRequest("alice", "v1", "s1", 9, 8)
BadDiscountRequest == [CallRequest("alice", "v1", "s1", 8, 9) EXCEPT !.discount = 10001]

CallRequests ==
    {CallRequest(u, v, slot, k[1], k[2]) :
        u \in {"alice", "sam"}, v \in {"v1", "v2", "v9"},
        slot \in {"s1", "s4", "s5", "s9"}, k \in {<<8, 9>>, <<11, 12>>}}
    \cup {ForeignUserRequest, EmptyRangeRequest, BadDiscountRequest}

\* the statements of the function body, in program order
StepOrder == <<"venue", "slot", "availability", "price", "code", "insert">>

\* txn[p] while call p is inside the function: the statement it executes next,
\* the statements it has executed, its local variables, and at the end its
\* result and the id it returned
InCall(pc, a, steps, base_price, code, result, id) ==
    [pc |-> pc, args |-> a, steps |-> steps, base_price |-> base_price,
     code |-> code, result |-> result, id |-> id]

\* faulty variant: an exception is noted and the call carries on
Advance_KeepsGoing(p, k, err) ==
    LET t == txn[p]
    IN  txn' = [txn EXCEPT ![p] =
                   [t EXCEPT !.pc = StepOrder[k + 1], !.steps = Append(t.steps, StepOrder[k]),
                             !.result = err]]

\* statement k of call p ran: on success the call moves on to statement
\* k + 1, on an exception it ends with that error
Advance(p, k, err) ==
    LET t == txn[p]
    IN  txn' = [txn EXCEPT ![p] =
                   IF err = Ok
                   THEN [t EXCEPT !.pc = StepOrder[k + 1], !.steps = Append(t.steps, StepOrder[k])]
                   ELSE [t EXCEPT !.pc = "done", !.steps = Append(t.steps, StepOrder[k]),
                                  !.result = err]]

StepVenue(p, a) ==
    /\ txn[p].pc = "idle"
    /\ txn' = [txn EXCEPT ![p] =
                  IF VenueCheck(a)
                  THEN InCall("slot", a, <<"venue">>, NULL, NULL, Ok, 0)
                  ELSE InCall("done", a, <<"venue">>, NULL, NULL, VenueUnavailable, 0)]
    /\ UNCHANGED <<venues, venue_time_slots, reservations, last, evals>>

StepSlot(p) ==
    /\ txn[p].pc = "slot"
    /\ Advance(p, 2, IF SlotCheck(txn[p].args) THEN Ok ELSE SlotUnavailable)
    /\ UNCHANGED <<venues, venue_time_slots, reservations, last, evals>>

StepAvailability(p) ==
    /\ txn[p].pc = "availability"
    /\ LET a == txn[p].args
       IN  Advance(p, 3, IF check_venue_availability(a.uid, reservations, a.venue_id, a.date,
                                                     a.start_time, a.end_time, NoExclude)
                         THEN Ok ELSE SlotAlreadyBooked)
    /\ UNCHANGED <<venues, venue_time_slots, reservations, last, evals>>

\* base_price := calculate_venue_price(..), which raises when it finds no
\* active venue and otherwise returns an amount or NULL
StepPrice(p) ==
    /\ txn[p].pc = "price"
    /\ LET a == txn[p].args
           t == txn[p]
       IN  IF ~PriceVenueFound(a.uid, a.venue_id)
           THEN Advance(p, 4, VenueUnavailable)
           ELSE \E row \in LimitOne(MatchingSlots(a.uid, a.venue_id, a.start_time)) :
                   txn' = [txn EXCEPT ![p] =
                              [t EXCEPT !.pc = "code", !.steps = Append(t.steps, "price"),
                                        !.base_price = calculate_venue_price(
                                             a.venue_id, a.date, a.duration_hours, row)]]
    /\ UNCHANGED <<venues, venue_time_slots, reservations, last, evals>>

\* reservation_code := generate_reservation_code()
StepCode(p) ==
    /\ txn[p].pc = "code"
    /\ LET t == txn[p]
       IN  \E c \in generate_reservation_code(t.args.uid, reservations) :
               txn' = [txn EXCEPT ![p] =
                          [t EXCEPT !.pc = "insert", !.steps = Append(t.steps, "code"),
                                    !.code = c]]
    /\ UNCHANGED <<venues, venue_time_slots, reservations, last, evals>>

\* faulty variant: the row stays in the table when the INSERT fails
StepInsert_KeepsRow(p) ==
    /\ txn[p].pc = "insert"
    /\ LET t == txn[p]
           r == NewRow(t.args, t.base_price, t.code)
           res == InsertOutcome(t.args.uid, reservations, r)
       IN  /\ reservations' = Append(reservations, r)
           /\ txn' = [txn EXCEPT ![p] =
                         [t EXCEPT !.pc = "done", !.steps = Append(t.steps, "insert"),
                                   !.result = res,
                                   !.id = IF res = Ok THEN Len(reservations) + 1 ELSE 0]]
    /\ UNCHANGED <<venues, venue_time_slots, last, evals>>

\* INSERT .. RETURNING id, RETURN reservation_id, commit
StepInsert(p) ==
    /\ txn[p].pc = "insert"
    /\ LET t == txn[p]
           r == NewRow(t.args, t.base_price, t.code)
           res == InsertOutcome(t.args.uid, reservations, r)
       IN  /\ reservations' = IF res = Ok THEN Append(reservations, r) ELSE reservations
           /\ txn' = [txn EXCEPT ![p] =
                         [t EXCEPT !.pc = "done", !.steps = Append(t.steps, "insert"),
                                   !.result = res,
                                   !.id = IF res = Ok THEN Len(reservations) + 1 ELSE 0]]
    /\ UNCHANGED <<venues, venue_time_slots, last, evals>>

\* the calls run against a venue table in which v2 may be switched off
InitSteps ==
    /\ \E act \in BOOLEAN :
          venues = [InitVenues EXCEPT !["v2"].is_active = act]
    /\ venue_time_slots = InitSlots
    /\ reservations = <<>>
    /\ last = NoCall
    /\ txn = [p \in Procs |-> NoTxn]
    /\ evals = <<NoEval, NoEval>>

NextSteps ==
    \/ \E p \in Procs, a \in CallRequests : StepVenue(p, a)
    \/ \E p \in Procs : StepSlot(p)
    \/ \E p \in Procs : StepAvailability(p)
    \/ \E p \in Procs : StepPrice(p)
    \/ \E p \in Procs : StepCode(p)
    \/ \E p \in Procs : StepInsert(p)

SpecSteps == InitSteps /\ [][NextSteps]_vars

\* ------------------------------------------------------------------ the retry loop of generate_reservation_code
\* txn[p] of a call of generate_reservation_code by uid: inside the WHILE loop
\* with the code drawn last, or returned with the code it found
NoCode == 0 - 1

GenStart(p, uid) ==
    /\ txn[p].pc = "idle"
    /\ txn' = [txn EXCEPT ![p] = [pc |-> "loop", uid |-> uid, code |-> NoCode]]
    /\ UNCHANGED <<venues, venue_time_slots, reservations, last, evals>>

\* one pass of the loop in which RANDOM() yields suffix c: the loop is left
\* when no row the caller sees carries the code
GenDraw(p, c) ==
    /\ txn[p].pc = "loop"
    /\ txn' = [txn EXCEPT ![p] =
                  [pc |-> IF CodeExists(txn[p].uid, reservations, c)
                          THEN "loop" ELSE "returned",
                   uid |-> txn[p].uid, code |-> c]]
    /\ UNCHANGED <<venues, venue_time_slots, reservations, last, evals>>

GenCallers == {"alice", "sam"}

NextCode ==
    \/ \E a \in OwnRequests : CreateReservation(a)
    \/ \E p \in Procs, uid \in GenCallers : GenStart(p, uid)
    \/ \E p \in Procs, c \in Suffixes : GenDraw(p, c)

\* RANDOM() is fair: a suffix that could be drawn again and again is drawn
SpecCode ==
    /\ Init
    /\ [][NextCode]_vars
    /\ \A p \in Procs, c \in Suffixes : SF_vars(GenDraw(p, c))

\* ------------------------------------------------------------------ the profile page's cancel button
\* handleCancel of a reservation card of uid's own history: the card was
\* rendered when the row was pending or confirmed (every row starts pending)
\* and may be stale; it issues UPDATE reservations SET status = 'cancelled'
\* WHERE id = .. directly, which updates the row when the UPDATE policies let
\* uid reach it and reports no error otherwise
HandleCancel(uid, id) ==
    /\ id \in 1 .. Len(reservations)
    /\ reservations[id].user_id = uid
    /\ reservations' = IF /\ CanSelectReservation(uid, reservations[id])
                          /\ CanUpdateReservation(uid, reservations[id])
                       THEN [reservations EXCEPT ![id].status = "cancelled"]
                       ELSE reservations
    /\ last' = [op |-> "handleCancel", result |-> Ok]
    /\ UNCHANGED <<venues, venue_time_slots, txn, evals>>

\* a customer and a staff member who both book for themselves
CancelRequests == OwnRequests \cup {LedgerRequest("sam", 9, 10)}

NextCancel ==
    \/ \E a \in CancelRequests : CreateReservation(a)
    \/ \E uid \in {"alice", "sam"}, id \in 1 .. MaxRes : CancelReservation(uid, id, uid)
    \/ \E uid \in {"alice", "sam"}, id \in 1 .. MaxRes, st \in Statuses :
          UpdateReservationStatus(uid, id, st)
    \/ \E uid \in {"alice", "sam"}, id \in 1 .. MaxRes : HandleCancel(uid, id)

SpecCancel == Init /\ [][NextCancel]_vars

\* ------------------------------------------------------------------ the ledger with arbitrary intervals
\* direct RPC calls of one customer whose interval may be empty or reversed,
\* and whose duration argument need not be the length of the interval
RangeRequest(slot, start, end, hours) ==
    [uid |-> "alice", user_id |-> "alice", venue_id |-> "v1", slot_id |-> slot,
     date |-> Sat, start_time |-> start, end_time |-> end,
     duration_hours |-> hours, discount |-> 0]

RangeRequests ==
    {RangeRequest("s1", 8, 9, 10), RangeRequest("s2", 9, 10, 10),
     RangeRequest("s2", 9, 8, 10), RangeRequest("s1", 8, 8, 10),
     RangeRequest("s1", 8, 10, 5)}

NextRange ==
    \/ \E a \in RangeRequests : CreateReservation(a)
    \/ \E id \in 1 .. MaxRes : CancelReservation("alice", id, "alice")
    \/ \E id \in 1 .. MaxRes, st \in {"confirmed", "completed"} :
          UpdateReservationStatus("sam", id, st)
    \/ \E id \in 1 .. MaxRes : HandleCancel("alice", id)

SpecRange == Init /\ [][NextRange]_vars

\* ------------------------------------------------------------------ the booking form
\* BookingForm of one signed-in customer.  evals[1] holds the component's
\* state (the watched venue and date, timeSlots, reservations, availableSlots);
\* txn[p] is one running invocation of fetchTimeSlots with the venue and date
\* its closure captured.  TIME values reach the client as 'HH:MM:SS' strings,
\* which JavaScript compares character by character; for zero-padded times
\* that is the order of the hours the model uses.
FormUser == "alice"

NoForm ==
    [venue_id |-> "none", date |-> 0, timeSlots |-> <<>>,
     reservations |-> {}, availableSlots |-> <<>>]

Form == evals[1]

\* one row of the slots response
SlotRow(s) ==
    [id |-> s, start_time |-> venue_time_slots[s].start_time,
     end_time |-> venue_time_slots[s].end_time]

\* from('venue_time_slots').select('*').eq('venue_id', v), under the policies of uid
SlotsQuery(uid, v) ==
    {s \in SlotIds : venue_time_slots[s].venue_id = v /\ CanSelectSlot(uid, s)}

\* .order('start_time'): rows with the same start come in any order
OrderedByStart(S) ==
    {q \in [1 .. Cardinality(S) -> S] :
        /\ \A i, j \in DOMAIN q : i # j => q[i] # q[j]
        /\ \A i, j \in DOMAIN q :
              i < j => venue_time_slots[q[i]].start_time <= venue_time_slots[q[j]].start_time}

\* from('reservations').select('start_time, end_time').eq(venue).eq(date)
\* .in('status', ['confirmed', 'pending']), under the policies of uid
ReservationsQuery(uid, rows, v, d) ==
    {<<rows[i].start_time, rows[i].end_time>> :
        i \in {j \in VisibleReservations(uid, rows) :
                  /\ rows[j].venue_id = v
                  /\ rows[j].reservation_date = d
                  /\ rows[j].status \in {"confirmed", "pending"}}}

\* hasConflict of the slot filter
HasConflict(slot, res) ==
    \E r \in res : slot.start_time < r[2] /\ slot.end_time > r[1]

\* (slots || []).filter(slot => !hasConflict).map(slot => slot.start_time)
RECURSIVE AvailableStarts(_, _)
AvailableStarts(slots, res) ==
    IF slots = <<>> THEN <<>>
    ELSE IF HasConflict(Head(slots), res)
         THEN AvailableStarts(Tail(slots), res)
         ELSE <<Head(slots).start_time>> \o AvailableStarts(Tail(slots), res)

\* the watched venue or date changes and the effect starts a new invocation;
\* an invocation that is still running is not cancelled
ChangeSelection(p, v, d) ==
    /\ txn[p] = NoTxn
    /\ <<v, d>> # <<Form.venue_id, Form.date>>
    /\ evals' = <<[Form EXCEPT !.venue_id = v, !.date = d], evals[2]>>
    /\ txn' = [txn EXCEPT ![p] = [pc |-> "slots", venue_id |-> v, date |-> d]]
    /\ last' = [op |-> "select", result |-> Ok]
    /\ UNCHANGED <<venues, venue_time_slots, reservations>>

\* the slots query answers: setTimeSlots, then the reservations query is sent
SlotsResponse(p) ==
    /\ txn[p].pc = "slots"
    /\ \E q \in OrderedByStart(SlotsQuery(FormUser, txn[p].venue_id)) :
          LET slots == [i \in DOMAIN q |-> SlotRow(q[i])]
          IN  /\ evals' = <<[Form EXCEPT !.timeSlots = slots], evals[2]>>
              /\ txn' = [txn EXCEPT ![p] = [pc |-> "reservations",
                                           venue_id |-> txn[p].venue_id,
                                           date |-> txn[p].date, slots |-> slots]]
    /\ last' = [op |-> "setTimeSlots", result |-> Ok]
    /\ UNCHANGED <<venues, venue_time_slots, reservations>>

\* the reservations query answers: setReservations and setAvailableSlots
ReservationsResponse(p) ==
    /\ txn[p].pc = "reservations"
    /\ LET res == ReservationsQuery(FormUser, reservations, txn[p].venue_id, txn[p].date)
       IN  evals' = <<[Form EXCEPT !.reservations = res,
                                   !.availableSlots = AvailableStarts(txn[p].slots, res)],
                      evals[2]>>
    /\ txn' = [txn EXCEPT ![p] = NoTxn]
    /\ last' = [op |-> "fetchTimeSlots", result |-> Ok]
    /\ UNCHANGED <<venues, venue_time_slots, reservations>>

\* either query reports an error: the invocation returns and sets nothing more
FetchError(p) ==
    /\ txn[p].pc \in {"slots", "reservations"}
    /\ txn' = [txn EXCEPT ![p] = NoTxn]
    /\ last' = [op |-> "fetchTimeSlots", result |-> "error"]
    /\ UNCHANGED <<venues, venue_time_slots, reservations, evals>>

\* timeSlots.slice(startIndex, i + 1).some(checkSlot => reservations.some(overlap))
WouldConflict(slots, res, startIndex, i) ==
    \E k \in startIndex .. i : HasConflict(slots[k], res)

\* the loop of getEndTimeOptions from index i on
RECURSIVE EndTimesFrom(_, _, _, _, _)
EndTimesFrom(slots, res, startTime, startIndex, i) ==
    IF i > Len(slots) THEN <<>>
    ELSE LET potentialEndTime == slots[i].end_time
             durationHours == potentialEndTime - startTime
         IN  IF durationHours < 1
             THEN EndTimesFrom(slots, res, startTime, startIndex, i + 1)
             ELSE IF WouldConflict(slots, res, startIndex, i)
                  THEN <<>>
                  ELSE <<potentialEndTime>>
                          \o EndTimesFrom(slots, res, startTime, startIndex, i + 1)

\* timeSlots.findIndex(slot => slot.start_time === startTime), 0 when none
FindIndex(slots, startTime) ==
    IF \E i \in 1 .. Len(slots) : slots[i].start_time = startTime
    THEN CHOOSE i \in 1 .. Len(slots) :
            /\ slots[i].start_time = startTime
            /\ \A j \in 1 .. (i - 1) : slots[j].start_time # startTime
    ELSE 0

getEndTimeOptions(slots, res, startTime) ==
    LET startIndex == FindIndex(slots, startTime)
    IN  IF startIndex = 0 THEN <<>>
        ELSE EndTimesFrom(slots, res, startTime, startIndex, startIndex)

Range(q) == {q[i] : i \in DOMAIN q}

\* the refinement of bookingSchema
bookingSchema(startTime, endTime) == endTime > startTime /\ endTime - startTime >= 1

\* onSubmit with a start time of the start select and an end time of the end
\* select: the slot is the first of timeSlots with that start, the duration is
\* the length of the interval, the discount is 0
OnSubmit(startTime, endTime) ==
    /\ Form.venue_id \in VenueIds
    /\ startTime \in Range(Form.availableSlots)
    /\ endTime \in Range(getEndTimeOptions(Form.timeSlots, Form.reservations, startTime))
    /\ bookingSchema(startTime, endTime)
    /\ CreateReservation(
          [uid |-> FormUser, user_id |-> FormUser, venue_id |-> Form.venue_id,
           slot_id |-> Form.timeSlots[FindIndex(Form.timeSlots, startTime)].id,
           date |-> Form.date, start_time |-> startTime, end_time |-> endTime,
           duration_hours |-> 10 * (endTime - startTime), discount |-> 0])

\* the customer's other way to change the ledger: an RPC call that names a
\* slot and an interval that is not the slot's
FormRpcRequests == {RangeRequest("s1", 10, 11, 10)}

\* slot tables the form may meet: the initial one, and one with a long slot
\* 08:00-12:00 over the slots 09:00-10:00 and 11:00-12:00, which have a gap
\* between them
GapSlots ==
    [InitSlots EXCEPT !["s1"].end_time = 12, !["s3"].is_available = FALSE,
                      !["s4"] = [venue_id |-> "v1", start_time |-> 11, end_time |-> 12,
                                 is_available |-> TRUE, price_multiplier |-> 100]]

FormTimes == 8 .. 12

InitForm ==
    /\ venues = InitVenues
    /\ venue_time_slots \in {InitSlots, GapSlots}
    /\ reservations = <<>>
    /\ last = NoCall
    /\ txn = [p \in Procs |-> NoTxn]
    /\ evals = <<NoForm, NoEval>>

NextForm ==
    \/ \E p \in Procs, v \in VenueIds, d \in {Sat} : ChangeSelection(p, v, d)
    \/ \E p \in Procs : SlotsResponse(p)
    \/ \E p \in Procs : ReservationsResponse(p)
    \/ \E p \in Procs : FetchError(p)
    \/ \E s, e \in FormTimes : OnSubmit(s, e)
    \/ \E a \in FormRpcRequests : CreateReservation(a)

SpecForm == InitForm /\ [][NextForm]_vars

\* ------------------------------------------------------------------ the venue page's availability view
\* VenueAvailability.fetchAvailability run by uid for a venue and a date: the
\* slots of the venue in start order, each marked available unless a fetched
\* reservation has the slot's start_time and the slot's end_time.  evals[2]
\* holds the component's timeSlots state.
PageRow(s, rows) ==
    [id |-> s, start_time |-> venue_time_slots[s].start_time,
     end_time |-> venue_time_slots[s].end_time,
     isAvailable |-> ~\E i \in DOMAIN rows :
                        /\ rows[i].start_time = venue_time_slots[s].start_time
                        /\ rows[i].end_time = venue_time_slots[s].end_time]

\* the rows of the reservations query, in table order
PageReservations(uid, rows, v, d) ==
    SelectSeq([i \in 1 .. Len(rows) |-> [id |-> i, row |-> rows[i]]],
              LAMBDA x : /\ x.id \in VisibleReservations(uid, rows)
                         /\ x.row.venue_id = v
                         /\ x.row.reservation_date = d
                         /\ x.row.status \in {"confirmed", "pending"})

FetchAvailability(uid, v, d) ==
    /\ \E q \in OrderedByStart(SlotsQuery(uid, v)) :
          LET found == PageReservations(uid, reservations, v, d)
              rows == [i \in DOMAIN found |-> found[i].row]
          IN  evals' = <<evals[1],
                         [venue_id |-> v, date |-> d,
                          timeSlots |-> [i \in DOMAIN q |-> PageRow(q[i], rows)]]>>
    /\ last' = [op |-> "fetchAvailability", result |-> Ok]
    /\ UNCHANGED <<venues, venue_time_slots, reservations, txn>>

NextPage ==
    \/ NextRange
    \/ \E v \in VenueIds, d \in {Sat, Tue} : FetchAvailability("alice", v, d)

SpecPage == Init /\ [][NextPage]_vars

\* ------------------------------------------------------------------ the overlap test of useVenueAvailability
\* new Date(`${date}T${time}`): the instant of a local date and time of day,
\* in hours since the epoch day
DateTime(date, time) == date * 24 + time

\* faulty variant: the clause for a slot that contains the reservation is missing
ThreeClauseOverlap_TwoClauses(date, slot, reservation) ==
    LET slotStart == DateTime(date, slot.start_time)
        slotEnd == DateTime(date, slot.end_time)
        reservationStart == DateTime(reservation.reservation_date, reservation.start_time)
        reservationEnd == DateTime(reservation.reservation_date, reservation.end_time)
    IN  \/ (slotStart >= reservationStart /\ slotStart < reservationEnd)
        \/ (slotEnd > reservationStart /\ slotEnd <= reservationEnd)

\* the predicate of reservations.find(..) for one slot and one reservation
ThreeClauseOverlap(date, slot, reservation) ==
    LET slotStart == DateTime(date, slot.start_time)
        slotEnd == DateTime(date, slot.end_time)
        reservationStart == DateTime(reservation.reservation_date, reservation.start_time)
        reservationEnd == DateTime(reservation.reservation_date, reservation.end_time)
    IN  \/ (slotStart >= reservationStart /\ slotStart < reservationEnd)
        \/ (slotEnd > reservationStart /\ slotEnd <= reservationEnd)
        \/ (slotStart <= reservationStart /\ slotEnd >= reservationEnd)

\* the test applied to a slot row and a reservation row of the hook's date;
\* evals[1] keeps the two rows
ApplyOverlapTest(date, slot, reservation) ==
    /\ evals' = <<[venue_id |-> "v1", date |-> date, slot |-> slot,
                   reservation |-> reservation], evals[2]>>
    /\ last' = [op |-> "overlapTest",
                result |-> IF ThreeClauseOverlap(date, slot, reservation)
                           THEN "true" ELSE "false"]
    /\ UNCHANGED <<venues, venue_time_slots, reservations, txn>>

OverlapTimes == 8 .. 12

\* slot rows carry no constraint on their times; reservation rows satisfy
\* valid_time_range and are those of the hook's date
OverlapSlots == [start_time : OverlapTimes, end_time : OverlapTimes]

OverlapReservations(date) ==
    {r \in [reservation_date : {date}, start_time : OverlapTimes, end_time : OverlapTimes] :
        r.start_time < r.end_time}

NextOverlap ==
    \E date \in {Sat, Tue}, slot \in OverlapSlots :
        \E reservation \in OverlapReservations(date) :
            ApplyOverlapTest(date, slot, reservation)

SpecOverlap == Init /\ [][NextOverlap]_vars

\* ------------------------------------------------------------------ the price shown and the price charged
\* the columns venue_time_slots has; the client's row type also names
\* price_weekday, price_weekend and is_active, which the table does not have
SlotColumns ==
    {"id", "venue_id", "start_time", "end_time", "is_available", "price_multiplier",
     "created_at", "updated_at"}

\* the value of a property a fetched row does not carry
Undefined == NULL - 1

\* slot[col] of a row fetched with select('*')
SlotField(s, col) ==
    IF col \in DOMAIN venue_time_slots[s] THEN venue_time_slots[s][col] ELSE Undefined

\* x || d
OrElse(x, d) == IF x = Undefined \/ x = NULL \/ x = 0 THEN d ELSE x

\* calculatePrice of the booking form for the watched venue and date, the
\* fetched timeSlots and the selected start and end time: Math.round of
\* basePrice * (slot.price_weekend || 1 or slot.price_weekday || 1) * duration
FormCalculatePrice(v, d, slots, startTime, endTime) ==
    LET idx == FindIndex(slots, startTime)
        duration == 10 * (endTime - startTime)
        isWeekend == DOW(d) \in {0, 6}
        basePrice == IF isWeekend /\ OrElse(venues[v].weekend_price, 0) # 0
                     THEN venues[v].weekend_price ELSE venues[v].base_price
        perHour == OrElse(SlotField(slots[idx].id,
                                    IF isWeekend THEN "price_weekend" ELSE "price_weekday"),
                          1)
    IN  IF v \notin VenueIds \/ idx = 0 THEN 0
        ELSE 100 * RoundMulDiv(basePrice, perHour * duration, 1000)

FailedToFetchPricing == "Failed to fetch pricing"
NoPricingInformation == "No pricing information available for this venue"

\* calculatePrice of lib/pricing.ts run by uid: the slots query filtered on
\* is_active, the slot that contains the requested interval, and Math.round of
\* (slot.price_weekend || 0 or slot.price_weekday || 0) * minutes / 60
LibraryCalculatePrice(uid, v, d, startTime, endTime) ==
    LET isWeekend == DOW(d) \in {0, 6}
        minutes == 60 * (endTime - startTime)
        timeSlots == SlotsQuery(uid, v)
        applicable == {s \in timeSlots :
                          /\ startTime >= venue_time_slots[s].start_time
                          /\ endTime <= venue_time_slots[s].end_time}
    IN  IF "is_active" \notin SlotColumns
        THEN {[error |-> FailedToFetchPricing, basePrice |-> Undefined]}
        ELSE IF timeSlots = {}
        THEN {[error |-> NoPricingInformation, basePrice |-> Undefined]}
        ELSE IF applicable = {}
        THEN {[error |-> NoPricingAvailable, basePrice |-> Undefined]}
        ELSE {[error |-> Ok,
               basePrice |->
                   100 * RoundDiv(OrElse(SlotField(s, IF isWeekend THEN "price_weekend"
                                                     ELSE "price_weekday"), 0) * minutes, 60)] :
                 s \in applicable}

\* calculatePrice of the booking store for a selected date and slot (NULL and
\* NoRow when nothing is selected)
StoreCalculatePrice(selectedDate, selectedTimeSlot) ==
    IF selectedDate = NULL \/ selectedTimeSlot = NoRow THEN 0
    ELSE SlotField(selectedTimeSlot,
                   IF DOW(selectedDate) \in {0, 6} THEN "price_weekend" ELSE "price_weekday")

\* the customer selects an interval the form offers on an active venue; the
\* three client calculators run and create_reservation prices the same
\* interval.  evals holds the two most recent quotes, the latest last
Quote(uid, v, d, startTime, endTime) ==
    /\ venues[v].is_active
    /\ \E q \in OrderedByStart(SlotsQuery(uid, v)) :
          LET slots == [i \in DOMAIN q |-> SlotRow(q[i])]
          IN  /\ FindIndex(slots, startTime) # 0
              /\ endTime \in Range(getEndTimeOptions(slots, {}, startTime))
              /\ \E row \in LimitOne(MatchingSlots(uid, v, startTime)) :
                   \E lib \in LibraryCalculatePrice(uid, v, d, startTime, endTime) :
                     evals' = <<evals[2],
                                [venue_id |-> v, date |-> d, start_time |-> startTime,
                                 end_time |-> endTime, row |-> row,
                                 shown |-> FormCalculatePrice(v, d, slots, startTime, endTime),
                                 library |-> lib,
                                 store |-> StoreCalculatePrice(d, slots[FindIndex(slots, startTime)].id),
                                 charged |-> calculate_venue_price(v, d,
                                                 10 * (endTime - startTime), row)]>>
    /\ last' = [op |-> "quote", result |-> Ok]
    /\ UNCHANGED <<venues, venue_time_slots, reservations, txn>>

NextQuote ==
    \E v \in VenueIds, d \in PriceDates, startTime \in FormTimes, endTime \in FormTimes :
        Quote("alice", v, d, startTime, endTime)

SpecQuote == InitPrice /\ [][NextQuote]_vars

\* ------------------------------------------------------------------ the booking store
\* useBookingStore; evals[1] holds the store's state.  No venue is "none", no
\* date is NULL, no slot is NoRow; a selected slot is a row of venue_time_slots
InitialStore ==
    [venue_id |-> "none", selectedDate |-> NULL, selectedTimeSlot |-> NoRow,
     availableSlots |-> {}, reservations |-> {}, notes |-> "", totalPrice |-> 0,
     duration |-> 0, loading |-> FALSE, isSubmitting |-> FALSE]

Store == evals[1]

\* calculateDuration for a selected slot, in tenths of an hour
StoreCalculateDuration(selectedTimeSlot) ==
    IF selectedTimeSlot = NoRow THEN 0
    ELSE 10 * (venue_time_slots[selectedTimeSlot].end_time
                 - venue_time_slots[selectedTimeSlot].start_time)

\* a store action that leaves the store in state st
StoreStep(op, st) ==
    /\ evals' = <<st, evals[2]>>
    /\ last' = [op |-> op, result |-> Ok]
    /\ UNCHANGED <<venues, venue_time_slots, reservations, txn>>

\* set({ totalPrice }) of calculatePrice on the state st
WithPrice(st) ==
    [st EXCEPT !.totalPrice = StoreCalculatePrice(st.selectedDate, st.selectedTimeSlot)]

\* set({ duration }) of calculateDuration on the state st
WithDuration(st) ==
    [st EXCEPT !.duration = StoreCalculateDuration(st.selectedTimeSlot)]

setSelectedVenue(venue) ==
    StoreStep("setSelectedVenue", WithPrice([Store EXCEPT !.venue_id = venue]))

\* faulty variant: the price is not recomputed when the date changes
setSelectedDate_NoRecalculation(date) ==
    StoreStep("setSelectedDate", [Store EXCEPT !.selectedDate = date])

setSelectedDate(date) ==
    StoreStep("setSelectedDate", WithPrice([Store EXCEPT !.selectedDate = date]))

setSelectedTimeSlot(slot) ==
    StoreStep("setSelectedTimeSlot",
              WithDuration(WithPrice([Store EXCEPT !.selectedTimeSlot = slot])))

setAvailableSlots(slots) ==
    StoreStep("setAvailableSlots", [Store EXCEPT !.availableSlots = slots])

setReservations(rows) ==
    StoreStep("setReservations", [Store EXCEPT !.reservations = rows])

setNotes(notes) == StoreStep("setNotes", [Store EXCEPT !.notes = notes])

setLoading(loading) == StoreStep("setLoading", [Store EXCEPT !.loading = loading])

setSubmitting(submitting) ==
    StoreStep("setSubmitting", [Store EXCEPT !.isSubmitting = submitting])

calculatePrice == StoreStep("calculatePrice", WithPrice(Store))

calculateDuration == StoreStep("calculateDuration", WithDuration(Store))

\* reservations and loading are not among the fields clearBooking resets
clearBooking ==
    StoreStep("clearBooking",
              [Store EXCEPT !.venue_id = "none", !.selectedDate = NULL,
                            !.selectedTimeSlot = NoRow, !.availableSlots = {},
                            !.notes = "", !.totalPrice = 0, !.duration = 0,
                            !.isSubmitting = FALSE])

StoreSlots == {"s1", "s5"}

InitStore ==
    /\ venues = InitVenues
    /\ venue_time_slots = InitSlots
    /\ reservations = <<>>
    /\ last = NoCall
    /\ txn = [p \in Procs |-> NoTxn]
    /\ evals = <<InitialStore, NoEval>>

NextStore ==
    \/ \E venue \in {"none", "v1"} : setSelectedVenue(venue)
    \/ \E date \in {NULL, Sat, Tue} : setSelectedDate(date)
    \/ \E slot \in {NoRow} \cup StoreSlots : setSelectedTimeSlot(slot)
    \/ \E slots \in {{}, StoreSlots} : setAvailableSlots(slots)
    \/ \E rows \in {{}, {1}} : setReservations(rows)
    \/ \E notes \in {"", "note"} : setNotes(notes)
    \/ \E loading \in BOOLEAN : setLoading(loading)
    \/ \E submitting \in BOOLEAN : setSubmitting(submitting)
    \/ calculatePrice
    \/ calculateDuration
    \/ clearBooking

SpecStore == InitStore /\ [][NextStore]_vars

\* ------------------------------------------------------------------ useRealtimeBookings
\* the hook mounted by a staff member with a venue filter.  evals[1] holds the
\* hook's state (bookings, error), evals[2] the change events of the channel
\* that are not delivered yet, txn[1] the running fetchBookings.  The channel
\* carries the changes to rows of the filtered venue that the subscriber's
\* policies let it read, in commit order
Subscriber == "sam"
HookVenue == "v1"

\* most change events that wait in the channel at one time
MaxEvents == 2

Hook == evals[1]
Channel == evals[2]

\* a booking of the list: the row and its id
Booking(id, row) == [id |-> id, row |-> row]

\* the change is published to the channel of the hook
Publish(eventType, id, row) ==
    IF row.venue_id = HookVenue /\ CanSelectReservation(Subscriber, row)
    THEN [Channel EXCEPT !.queue = Append(@, [eventType |-> eventType,
                                             new |-> Booking(id, row),
                                             old |-> [id |-> id]])]
    ELSE Channel

\* create_reservation by a customer, with its change event
RealtimeCreate(a) ==
    \E row \in LimitOne(MatchingSlots(a.uid, a.venue_id, a.start_time)) :
      \E code \in IF Validate(a, reservations) = Ok
                  THEN generate_reservation_code(a.uid, reservations) ELSE {0} :
        LET r == NewRow(a, calculate_venue_price(a.venue_id, a.date, a.duration_hours, row), code)
        IN  /\ CreateOutcome(a, reservations, row, code) = Ok
            /\ Len(reservations) < MaxRes
            /\ Len(Channel.queue) < MaxEvents
            /\ reservations' = Append(reservations, r)
            /\ evals' = <<Hook, Publish("INSERT", Len(reservations) + 1, r)>>
            /\ last' = [op |-> "create_reservation", result |-> Ok]
            /\ UNCHANGED <<venues, venue_time_slots, txn>>

\* update_reservation_status by uid, with its change event
RealtimeUpdate(uid, id, p_status) ==
    /\ UpdateStatusFound(uid, reservations, id)
    /\ reservations[id].status # p_status
    /\ Len(Channel.queue) < MaxEvents
    /\ reservations' = [reservations EXCEPT ![id].status = p_status]
    /\ evals' = <<Hook, Publish("UPDATE", id, [reservations[id] EXCEPT !.status = p_status])>>
    /\ last' = [op |-> "update_reservation_status", result |-> "true"]
    /\ UNCHANGED <<venues, venue_time_slots, txn>>

\* the rows the query of fetchBookings returns: newest first, venue filter
RECURSIVE BookingsQuery(_, _, _)
BookingsQuery(uid, rows, n) ==
    IF n = 0 THEN <<>>
    ELSE IF rows[n].venue_id = HookVenue /\ n \in VisibleReservations(uid, rows)
         THEN <<Booking(n, rows[n])>> \o BookingsQuery(uid, rows, n - 1)
         ELSE BookingsQuery(uid, rows, n - 1)

\* the query of fetchBookings is executed
FetchBookingsQuery ==
    /\ txn[1].pc = "query"
    /\ txn' = [txn EXCEPT ![1] = [pc |-> "response",
                                  data |-> BookingsQuery(Subscriber, reservations,
                                                         Len(reservations))]]
    /\ last' = [op |-> "fetchBookings", result |-> "sent"]
    /\ UNCHANGED <<venues, venue_time_slots, reservations, evals>>

\* its response arrives: setBookings(data || [])
FetchBookingsResponse ==
    /\ txn[1].pc = "response"
    /\ evals' = <<[Hook EXCEPT !.bookings = txn[1].data], Channel>>
    /\ txn' = [txn EXCEPT ![1] = NoTxn]
    /\ last' = [op |-> "fetchBookings", result |-> Ok]
    /\ UNCHANGED <<venues, venue_time_slots, reservations>>

\* the query reports an error: setError
FetchBookingsError ==
    /\ txn[1].pc = "response"
    /\ evals' = <<[Hook EXCEPT !.error = "An error occurred"], Channel>>
    /\ txn' = [txn EXCEPT ![1] = NoTxn]
    /\ last' = [op |-> "fetchBookings", result |-> "error"]
    /\ UNCHANGED <<venues, venue_time_slots, reservations>>

\* the subscription callback applied to the list prev
ApplyEvent(prev, payload) ==
    IF payload.eventType = "INSERT"
    THEN <<payload.new>> \o prev
    ELSE IF payload.eventType = "UPDATE"
    THEN [i \in DOMAIN prev |->
             IF prev[i].id = payload.new.id THEN payload.new ELSE prev[i]]
    ELSE IF payload.eventType = "DELETE"
    THEN SelectSeq(prev, LAMBDA b : b.id # payload.old.id)
    ELSE prev

\* the oldest undelivered event reaches the callback
DeliverEvent ==
    /\ Channel.queue # <<>>
    /\ evals' = <<[Hook EXCEPT !.bookings = ApplyEvent(@, Head(Channel.queue))],
                  [Channel EXCEPT !.queue = Tail(@)]>>
    /\ last' = [op |-> "postgres_changes", result |-> Ok]
    /\ UNCHANGED <<venues, venue_time_slots, reservations, txn>>

RealtimeRequests ==
    {LedgerRequest("alice", 8, 9), LedgerRequest("bob", 9, 10),
     MoneyRequest("v2", "s5", 20, 0)}

\* the state right after the effect ran: the fetch is started, the channel is
\* subscribed and empty
InitRealtime ==
    /\ venues = InitVenues
    /\ venue_time_slots = InitSlots
    /\ reservations = <<>>
    /\ last = NoCall
    /\ txn = [p \in Procs |-> IF p = 1 THEN [pc |-> "query"] ELSE NoTxn]
    /\ evals = <<[venue_id |-> HookVenue, bookings |-> <<>>, error |-> "none"],
                 [venue_id |-> HookVenue, queue |-> <<>>]>>

NextRealtime ==
    \/ \E a \in RealtimeRequests : RealtimeCreate(a)
    \/ \E id \in 1 .. MaxRes, st \in {"confirmed", "cancelled"} :
          RealtimeUpdate(Subscriber, id, st)
    \/ FetchBookingsQuery
    \/ FetchBookingsResponse
    \/ FetchBookingsError
    \/ DeliverEvent

SpecRealtime == InitRealtime /\ [][NextRealtime]_vars

\* ================================================================== claims

SameSlotRequest(a, b) ==
    /\ a.venue_id = b.venue_id
    /\ a.date = b.date
    /\ a.start_time = b.start_time
    /\ a.end_time = b.end_time

\* C1: of two concurrent create_reservation calls for the same venue, date and
\* interval (venue active, slot available, ledger empty before), exactly one
\* succeeds and the other fails with SlotAlreadyBooked; never both succeed.
C1_ExactlyOneSucceeds ==
    \A p, q \in Procs :
        (/\ p # q
         /\ txn[p].pc = "done"
         /\ txn[q].pc = "done"
         /\ SameSlotRequest(txn[p].args, txn[q].args))
        => {txn[p].result, txn[q].result} = {Ok, SlotAlreadyBooked}

\* some pending or confirmed reservation of the ledger overlaps [s, e) on (v, d)
ActiveOverlapExists(rows, v, d, s, e) ==
    \E i \in 1 .. Len(rows) :
        /\ rows[i].venue_id = v
        /\ rows[i].reservation_date = d
        /\ rows[i].status \in {"pending", "confirmed"}
        /\ rows[i].start_time < e
        /\ rows[i].end_time > s

\* C2: no two distinct pending/confirmed reservations of the same venue and
\* date overlap, in any state reached by calls executed one at a time.
C2_NoDoubleBooking ==
    \A i, j \in 1 .. Len(reservations) :
        (/\ i # j
         /\ reservations[i].venue_id = reservations[j].venue_id
         /\ reservations[i].reservation_date = reservations[j].reservation_date
         /\ reservations[i].status \in {"pending", "confirmed"}
         /\ reservations[j].status \in {"pending", "confirmed"})
        => ~(/\ reservations[i].start_time < reservations[j].end_time
             /\ reservations[i].end_time > reservations[j].start_time)

\* C3: a create_reservation call executed while a pending or confirmed
\* reservation overlaps its interval fails with SlotAlreadyBooked and inserts
\* no row.
C3_RevalidatesAtCommit ==
    [][\A a \in LedgerRequests :
          (/\ last'.op = "create_reservation"
           /\ ActiveOverlapExists(reservations, a.venue_id, a.date,
                                  a.start_time, a.end_time)
           /\ CreateReservation(a))
          => (last'.result = SlotAlreadyBooked /\ reservations' = reservations)]_vars

\* C4: check_venue_availability(V, D, s, e) is true exactly when no pending or
\* confirmed reservation of V on D overlaps [s, e) (half-open).
C4_TrueIffNoOverlap ==
    [][\A uid \in AvailCallers, v \in VenueIds, d \in {Sat, Tue}, k \in AvailIntervals :
          (last'.op = "check_venue_availability" /\ CheckAvailability(uid, v, d, k[1], k[2]))
          => (last'.result = "true"
                <=> ~ActiveOverlapExists(reservations, v, d, k[1], k[2]))]_vars

\* the interval of request a was held by a reservation that is now cancelled
\* or completed, and no pending or confirmed reservation overlaps it
FreedSlot(a) ==
    /\ \E i \in 1 .. Len(reservations) :
          /\ reservations[i].status \in {"cancelled", "completed"}
          /\ reservations[i].venue_id = a.venue_id
          /\ reservations[i].reservation_date = a.date
          /\ reservations[i].start_time = a.start_time
          /\ reservations[i].end_time = a.end_time
    /\ ~ActiveOverlapExists(reservations, a.venue_id, a.date, a.start_time, a.end_time)

\* C5: cancelled and completed reservations never block: for a freed slot the
\* evaluator answers true and create_reservation is not rejected as already
\* booked.
C5_CancelledNeverBlocks ==
    [][\A a \in LedgerRequests :
          (last'.op = "create_reservation" /\ FreedSlot(a) /\ CreateReservation(a))
          => (/\ check_venue_availability(a.uid, reservations, a.venue_id, a.date,
                                          a.start_time, a.end_time, NoExclude)
              /\ last'.result # SlotAlreadyBooked)]_vars

\* a reservation was created on the interval of an earlier, cancelled one
C5_Witness ==
    /\ last.op = "create_reservation"
    /\ last.result = Ok
    /\ \E i \in 1 .. (Len(reservations) - 1) :
          /\ reservations[i].status = "cancelled"
          /\ reservations[i].venue_id = reservations[Len(reservations)].venue_id
          /\ reservations[i].reservation_date = reservations[Len(reservations)].reservation_date
          /\ reservations[i].start_time = reservations[Len(reservations)].start_time
          /\ reservations[i].end_time = reservations[Len(reservations)].end_time

\* ------------------------------------------------------------------ price claims
\* the latest evaluation of the calculator, and the one before it
Cur == evals[2]
Prev == evals[1]

Priced(e) == e.venue_id # "none" /\ e.error = Ok /\ e.row # NoRow

\* the venue's hourly price for the day class of the date
DayClassRate(e) ==
    IF e.date \in {Sat, Sun} /\ venues[e.venue_id].weekend_price # NULL
    THEN venues[e.venue_id].weekend_price
    ELSE venues[e.venue_id].base_price

\* the multiplier of the slot the evaluation used (1.0 when the column is unset)
SlotMultiplier(e) ==
    IF venue_time_slots[e.row].price_multiplier = NULL THEN 100
    ELSE venue_time_slots[e.row].price_multiplier

\* the slot the evaluation used is an available slot of the venue that contains
\* the start time
UsedSlotContainsStart(e) ==
    /\ venue_time_slots[e.row].venue_id = e.venue_id
    /\ venue_time_slots[e.row].is_available
    /\ venue_time_slots[e.row].start_time <= e.start_time
    /\ e.start_time < venue_time_slots[e.row].end_time

\* the example of the claim: weekend price 200000, weekday price 150000,
\* multiplier 1.0, one hour
ExamplePrices(e) ==
    (e.venue_id = "v1" /\ SlotMultiplier(e) = 100 /\ e.duration_hours = 10)
    => (/\ e.date = Sat => e.amount = 20000000
        /\ e.date = Tue => e.amount = 15000000)

\* C6 as stated: the price of a booking at an active venue is base price x
\* slot multiplier x hours, rounded to the nearest whole currency unit.
C6_RoundedToWholeUnit ==
    Priced(Cur) =>
        /\ UsedSlotContainsStart(Cur)
        /\ Cur.amount = 100 * RoundMulDiv(DayClassRate(Cur),
                                SlotMultiplier(Cur) * Cur.duration_hours, 100000)
        /\ ExamplePrices(Cur)

\* C7: when no slot of the venue contains the start time, the price
\* calculation fails with NoPricingAvailable, and create_reservation reports
\* that error and inserts no row.
C7_NoPricingError ==
    [][\A a \in LedgerRequests :
          (/\ last'.op = "create_reservation"
           /\ Validate(a, reservations) = Ok
           /\ \A sl \in SlotIds :
                 ~(/\ venue_time_slots[sl].venue_id = a.venue_id
                   /\ venue_time_slots[sl].start_time <= a.start_time
                   /\ a.start_time < venue_time_slots[sl].end_time)
           /\ CreateReservation(a))
          => (last'.result = NoPricingAvailable /\ reservations' = reservations)]_vars

\* two evaluations for the same venue, date, start and slot row, the later one
\* for twice the duration
Doubled(e1, e2) ==
    /\ Priced(e1)
    /\ Priced(e2)
    /\ e1.venue_id = e2.venue_id
    /\ e1.date = e2.date
    /\ e1.start_time = e2.start_time
    /\ e1.row = e2.row
    /\ e2.duration_hours = 2 * e1.duration_hours

\* the unrounded price of e has at most two decimals
ExactToHundredths(e) ==
    ((DayClassRate(e) % 1000) * SlotMultiplier(e) * e.duration_hours) % 1000 = 0

\* C8 as stated: doubling the duration exactly doubles the (rounded) price.
C8_DoublingIsExact ==
    Doubled(Prev, Cur) => Cur.amount = 2 * Prev.amount

\* C8 as amended: the price for 2h differs from twice the price for h by at
\* most one hundredth, and not at all when the price for h needed no rounding.
C8_DoublingUpToRounding ==
    Doubled(Prev, Cur) =>
        /\ Cur.amount - 2 * Prev.amount \in {0 - 1, 0, 1}
        /\ ExactToHundredths(Prev) => Cur.amount = 2 * Prev.amount

\* a doubling whose price is not twice the price of the half
C8_Witness ==
    Doubled(Prev, Cur) /\ Cur.amount # 2 * Prev.amount

\* C9: two evaluations with the same arguments against the same tables return
\* the same amount, also when several slots contain the start time.
C9_Deterministic ==
    (/\ Prev.venue_id # "none"
     /\ Prev.venue_id = Cur.venue_id
     /\ Prev.date = Cur.date
     /\ Prev.start_time = Cur.start_time
     /\ Prev.duration_hours = Cur.duration_hours)
    => (Prev.error = Cur.error /\ Prev.amount = Cur.amount)

\* ------------------------------------------------------------------ discount claims
PriceFields(r) == <<r.base_price, r.discount_percentage, r.total_price>>

\* no step changes the price fields of an existing row
PriceFieldsKept ==
    \A i \in 1 .. Len(reservations) :
        /\ i <= Len(reservations')
        /\ PriceFields(reservations'[i]) = PriceFields(reservations[i])

\* total_price = base_price x (1 - discount / 100) with no rounding, i.e.
\* 10000 x total_price = base_price x (10000 - discount), base_price split at
\* 10000 to keep the products small
ExactTotal(r) ==
    LET q == r.base_price \div 10000
        m == r.base_price % 10000
        f == 10000 - r.discount_percentage
    IN  10000 * (r.total_price - q * f) = m * f

\* the example of the claim: discount 10 on a base price of 100000
ExampleTotal(r) ==
    (r.base_price = 10000000 /\ r.discount_percentage = 1000)
    => r.total_price = 9000000

Finished(p) == txn[p].pc = "done"

\* the venue of the call is missing from the venue table or switched off
VenueMissingOrInactive(a) ==
    a.venue_id \notin VenueIds \/ ~venues[a.venue_id].is_active

\* the slot of the call is missing, belongs to another venue or is switched off
SlotMissingForeignOrOff(a) ==
    \/ a.slot_id \notin SlotIds
    \/ venue_time_slots[a.slot_id].venue_id # a.venue_id
    \/ ~venue_time_slots[a.slot_id].is_available

\* C11: create_reservation for a venue that does not exist or is inactive
\* fails with VenueUnavailable whatever the other arguments are, and never
\* gets to the INSERT; no row of the ledger belongs to such a venue.
C11_VenueUnavailable ==
    /\ \A p \in Procs :
          (Finished(p) /\ VenueMissingOrInactive(txn[p].args))
          => (txn[p].result = VenueUnavailable /\ txn[p].steps = <<"venue">>)
    /\ \A i \in 1 .. Len(reservations) :
          reservations[i].venue_id \in VenueIds /\ venues[reservations[i].venue_id].is_active

\* calls for the switched-off venue and for an unknown venue were both refused
C11_Witness ==
    /\ ~venues["v2"].is_active
    /\ \E p, q \in Procs :
          /\ Finished(p) /\ txn[p].args.venue_id = "v2" /\ txn[p].args.slot_id = "s5"
          /\ txn[p].result = VenueUnavailable
          /\ Finished(q) /\ txn[q].args.venue_id = "v9"
          /\ txn[q].result = VenueUnavailable

\* C12: create_reservation for an active venue with a slot id that does not
\* exist, belongs to another venue or is not available fails with
\* SlotUnavailable and never gets to the INSERT.
C12_SlotUnavailable ==
    /\ \A p \in Procs :
          (/\ Finished(p)
           /\ ~VenueMissingOrInactive(txn[p].args)
           /\ SlotMissingForeignOrOff(txn[p].args))
          => (txn[p].result = SlotUnavailable /\ txn[p].steps = <<"venue", "slot">>)
    /\ \A i \in 1 .. Len(reservations) :
          /\ reservations[i].venue_time_slot_id \in SlotIds
          /\ venue_time_slots[reservations[i].venue_time_slot_id].venue_id
                = reservations[i].venue_id
          /\ venue_time_slots[reservations[i].venue_time_slot_id].is_available

\* a call with a slot of another venue and a call with a switched-off slot
\* were both refused
C12_Witness ==
    \E p, q \in Procs :
        /\ Finished(p) /\ txn[p].args.venue_id = "v1" /\ txn[p].args.slot_id = "s5"
        /\ txn[p].result = SlotUnavailable
        /\ Finished(q) /\ txn[q].args.venue_id = "v1" /\ txn[q].args.slot_id = "s4"
        /\ txn[q].result = SlotUnavailable

\* C13: the statements run in the order venue check, slot check, availability
\* check, price, code, insert; the error is that of the earliest failing
\* statement and nothing runs after a failure.
C13_FixedOrder ==
    \A p \in Procs :
        txn[p].pc # "idle" =>
            LET t == txn[p]
                n == Len(t.steps)
            IN  /\ t.steps = SubSeq(StepOrder, 1, n)
                /\ ~Finished(p) => (t.result = Ok /\ t.pc = StepOrder[n + 1])
                /\ (Finished(p) /\ t.result = Ok) => n = Len(StepOrder)
                /\ Finished(p) =>
                     /\ VenueMissingOrInactive(t.args)
                           <=> (t.result = VenueUnavailable /\ n = 1)
                     /\ (~VenueMissingOrInactive(t.args) /\ SlotMissingForeignOrOff(t.args))
                           <=> (t.result = SlotUnavailable /\ n = 2)
                     /\ t.result = SlotAlreadyBooked => n = 3

\* a call with a bad slot for an interval that is already booked was refused
\* for the slot
C13_Witness ==
    \E p \in Procs :
        /\ Finished(p)
        /\ SlotMissingForeignOrOff(txn[p].args)
        /\ ActiveOverlapExists(reservations, txn[p].args.venue_id, txn[p].args.date,
                               txn[p].args.start_time, txn[p].args.end_time)
        /\ txn[p].result = SlotUnavailable

\* the errors a statement of the function body can end the call with
StepErrors(step) ==
    CASE step = "venue" -> {VenueUnavailable}
      [] step = "slot" -> {SlotUnavailable}
      [] step = "availability" -> {SlotAlreadyBooked}
      [] step = "price" -> {VenueUnavailable}
      [] step = "code" -> {}
      [] OTHER -> {RlsViolation, NotNullViolation, DiscountViolation,
                   TimeRangeViolation, DuplicateCode}

\* call p has just returned successfully
Succeeds(p) ==
    txn[p].pc = "insert" /\ txn'[p].pc = "done" /\ txn'[p].result = Ok

\* C14: a create_reservation call that fails leaves every table as it was,
\* and its error is the error of the statement that failed.
C14_FailureAtomic ==
    [][\A p \in Procs :
          (txn'[p] # txn[p] /\ ~Succeeds(p))
          => /\ reservations' = reservations
             /\ venues' = venues
             /\ venue_time_slots' = venue_time_slots
             /\ txn'[p].pc = "done"
                  => txn'[p].result \in StepErrors(txn'[p].steps[Len(txn'[p].steps)])]_vars

\* a call failed at the INSERT, after another call had stored a row, and the
\* ledger holds that one row only
C14_Witness ==
    \E p, q \in Procs :
        /\ Finished(p) /\ txn[p].result = DuplicateCode
        /\ Finished(q) /\ txn[q].result = Ok
        /\ Len(reservations) = 1

\* C15: a successful call appends exactly one row, pending and with the user,
\* venue, slot, date, start and end of the call, returns its id and leaves the
\* other rows unchanged.
C15_OneNewRow ==
    [][\A p \in Procs :
          Succeeds(p)
          => LET a == txn[p].args
                 n == Len(reservations)
             IN  /\ Len(reservations') = n + 1
                 /\ SubSeq(reservations', 1, n) = reservations
                 /\ txn'[p].id = n + 1
                 /\ reservations'[n + 1].status = "pending"
                 /\ reservations'[n + 1].user_id = a.user_id
                 /\ reservations'[n + 1].venue_id = a.venue_id
                 /\ reservations'[n + 1].venue_time_slot_id = a.slot_id
                 /\ reservations'[n + 1].reservation_date = a.date
                 /\ reservations'[n + 1].start_time = a.start_time
                 /\ reservations'[n + 1].end_time = a.end_time]_vars

\* two calls succeeded one after the other; the second returned id 2
C15_Witness ==
    /\ Len(reservations) = 2
    /\ \E p, q \in Procs :
          /\ Finished(p) /\ txn[p].result = Ok /\ txn[p].id = 1
          /\ Finished(q) /\ txn[q].result = Ok /\ txn[q].id = 2
          /\ reservations[2].user_id = txn[q].args.user_id
          /\ reservations[2].status = "pending"


\* ------------------------------------------------------------------ code claims
\* C16: every generated code differs from the codes generated before it, so
\* no create_reservation call fails on a duplicate code, and the codes of the
\* ledger are pairwise distinct.
C16_CodesNeverCollide ==
    /\ last.op = "create_reservation" => last.result # DuplicateCode
    /\ \A i, j \in 1 .. Len(reservations) :
          i # j => reservations[i].reservation_code # reservations[j].reservation_code

\* C17: the retry loop of generate_reservation_code always returns, whatever
\* codes the ledger holds, when the random suffix is drawn fairly.
C17_GeneratorTerminates ==
    \A p \in Procs : (txn[p].pc = "loop") ~> (txn[p].pc = "returned")


\* ------------------------------------------------------------------ cancellation claims
\* every row other than id is unchanged, and row id differs at most in status
OnlyStatusOf(id) ==
    /\ Len(reservations') = Len(reservations)
    /\ \A i \in 1 .. Len(reservations) :
          IF i = id
          THEN [reservations'[i] EXCEPT !.status = reservations[i].status] = reservations[i]
          ELSE reservations'[i] = reservations[i]

\* C18: cancel_reservation(R, U) sets R to cancelled exactly when R exists, U
\* owns R or is staff or higher, and R is pending or confirmed; a user who is
\* neither gets Unauthorized and nothing changes; nothing but R's status is
\* ever changed.
C18_CancelIffAllowed ==
    [][\A uid \in Users, id \in 1 .. MaxRes :
          (last'.op = "cancel_reservation" /\ CancelReservation(uid, id, uid))
          => LET exists == id <= Len(reservations)
                 entitled == reservations[id].user_id = uid
                             \/ profiles[uid] \in {"staff", "admin", "superadmin"}
                 cancelled == /\ reservations[id].status # "cancelled"
                              /\ reservations'[id].status = "cancelled"
             IN  /\ OnlyStatusOf(id)
                 /\ exists =>
                      /\ cancelled <=> (entitled /\ reservations[id].status
                                                       \in {"pending", "confirmed"})
                      /\ ~entitled => (last'.result = Unauthorized
                                       /\ reservations' = reservations)]_vars

\* C19: cancel_reservation by the owner or by staff on a reservation that is
\* already cancelled or completed is answered with the failure return FALSE
\* (NotCancellable), and no row changes.
C19_NotCancellable ==
    [][\A uid \in {"alice", "sam"}, id \in 1 .. MaxRes :
          (/\ last'.op = "cancel_reservation"
           /\ id <= Len(reservations)
           /\ reservations[id].status \in {"cancelled", "completed"}
           /\ CancelReservation(uid, id, uid))
          => (last'.result = "false" /\ reservations' = reservations)]_vars

\* a cancel call was answered FALSE while every reservation of the ledger was
\* cancelled or completed, one of them completed
C19_Witness ==
    /\ last = [op |-> "cancel_reservation", result |-> "false"]
    /\ Len(reservations) >= 1
    /\ \A i \in 1 .. Len(reservations) :
          reservations[i].status \in {"cancelled", "completed"}
    /\ \E i \in 1 .. Len(reservations) : reservations[i].status = "completed"

\* C20: no operation sets the status of a completed reservation to cancelled.
C20_CompletedNeverCancelled ==
    [][\A i \in 1 .. Len(reservations) :
          reservations[i].status = "completed" => reservations'[i].status # "cancelled"]_vars


\* ------------------------------------------------------------------ interval claims
\* C21: every reservation row has start_time < end_time: a create_reservation
\* call with start >= end fails and inserts nothing, and no operation changes
\* the start or end time of a row.
C21_StartBeforeEnd ==
    [][/\ \A i \in 1 .. Len(reservations') :
             reservations'[i].start_time < reservations'[i].end_time
       /\ \A i \in 1 .. Len(reservations) :
             /\ i <= Len(reservations')
             /\ reservations'[i].start_time = reservations[i].start_time
             /\ reservations'[i].end_time = reservations[i].end_time
       /\ \A a \in RangeRequests :
             (/\ last'.op = "create_reservation"
              /\ a.start_time >= a.end_time
              /\ CreateReservation(a))
             => (last'.result # Ok /\ reservations' = reservations)]_vars

\* a call with an empty or reversed interval was refused by valid_time_range
\* while the ledger held a cancelled reservation
C21_Witness ==
    /\ last = [op |-> "create_reservation", result |-> TimeRangeViolation]
    /\ \E i \in 1 .. Len(reservations) : reservations[i].status = "cancelled"


\* C22: every row created by create_reservation has duration_hours equal to
\* the length of its interval in hours.
C22_DurationIsIntervalLength ==
    \A i \in 1 .. Len(reservations) :
        reservations[i].duration_hours
            = 10 * (reservations[i].end_time - reservations[i].start_time)

\* ------------------------------------------------------------------ booking form claims
\* an invocation of fetchTimeSlots by p runs to its end in this step
FetchCompletes(p) ==
    /\ txn[p].pc = "reservations"
    /\ txn'[p] = NoTxn
    /\ last' = [op |-> "fetchTimeSlots", result |-> Ok]

\* C23: when fetchTimeSlots completes for venue V and date D, the start time of
\* a fetched slot is in availableSlots iff check_venue_availability(V, D,
\* slot.start, slot.end) is true on the reservations the form's user can see.
C23_FilterAgreesWithEvaluator ==
    [][\A p \in Procs :
          FetchCompletes(p) =>
              \A k \in 1 .. Len(txn[p].slots) :
                  (txn[p].slots[k].start_time \in Range(evals'[1].availableSlots))
                      <=> check_venue_availability(FormUser, reservations',
                              txn[p].venue_id, txn[p].date,
                              txn[p].slots[k].start_time, txn[p].slots[k].end_time,
                              NoExclude)]_vars

\* C26: every end time getEndTimeOptions offers for a start time gives an
\* interval of at least one hour that overlaps no reservation held by the form.
C26_OfferedEndsAreFree ==
    \A startTime \in FormTimes :
        \A endTime \in Range(getEndTimeOptions(Form.timeSlots, Form.reservations, startTime)) :
            /\ endTime - startTime >= 1
            /\ ~\E r \in Form.reservations : startTime < r[2] /\ endTime > r[1]

\* the form holds the slots of the venue that is selected now
HoldsCurrentSlots(form) ==
    /\ form.timeSlots # <<>>
    /\ \A k \in 1 .. Len(form.timeSlots) :
          venue_time_slots[form.timeSlots[k].id].venue_id = form.venue_id

\* p takes a step of an invocation started for an earlier selection
LateResponse(p) ==
    /\ txn[p].pc \in {"slots", "reservations"}
    /\ txn'[p] # txn[p]
    /\ <<txn[p].venue_id, txn[p].date>> # <<Form.venue_id, Form.date>>

\* C29: a late response to a request for an earlier selection never replaces
\* the result the form already holds for the current selection.
C29_LateResponseNeverOverwrites ==
    [][\A p \in Procs :
          (LateResponse(p) /\ HoldsCurrentSlots(Form)) => HoldsCurrentSlots(evals'[1])]_vars

\* C25: after fetchAvailability, a slot is marked booked (isAvailable false)
\* iff a pending or confirmed reservation of that venue and date overlaps the
\* slot's interval under the half-open test.
C25_BookedIffOverlap ==
    last.op = "fetchAvailability" =>
        \A k \in 1 .. Len(evals[2].timeSlots) :
            (~evals[2].timeSlots[k].isAvailable)
                <=> ActiveOverlapExists(reservations, evals[2].venue_id, evals[2].date,
                                        evals[2].timeSlots[k].start_time,
                                        evals[2].timeSlots[k].end_time)

C27_ShownIsCharged ==
    \A k \in 1 .. 2 :
        evals[k].venue_id # "none" =>
            /\ evals[k].shown = evals[k].charged
            /\ evals[k].library.error = Ok
            /\ evals[k].library.basePrice = evals[k].charged

\* C30: in every reachable state of the booking store totalPrice is 0 when no
\* date or no slot is selected, duration is 0 when no slot is selected, and
\* otherwise both are the values computed from the selected date and slot;
\* after clearBooking venue, date and slot are unset, notes is empty and
\* totalPrice and duration are 0.
C30_StoreInvariant ==
    /\ (Store.selectedDate = NULL \/ Store.selectedTimeSlot = NoRow) => Store.totalPrice = 0
    /\ Store.selectedTimeSlot = NoRow => Store.duration = 0
    /\ Store.totalPrice = StoreCalculatePrice(Store.selectedDate, Store.selectedTimeSlot)
    /\ Store.duration = StoreCalculateDuration(Store.selectedTimeSlot)
    /\ last.op = "clearBooking" =>
          /\ Store.venue_id = "none"
          /\ Store.selectedDate = NULL
          /\ Store.selectedTimeSlot = NoRow
          /\ Store.notes = ""
          /\ Store.totalPrice = 0
          /\ Store.duration = 0

\* a date is selected while a two-hour slot is selected
C30_Witness ==
    /\ last.op = "setSelectedDate"
    /\ Store.selectedDate = Sat
    /\ Store.selectedTimeSlot = "s5"
    /\ Store.duration = 20
    /\ Store.totalPrice # 0

\* C28: once the fetch has completed without error and every event has been
\* delivered, the bookings list holds each reservation of the filtered venue
\* exactly once, with the values the ledger has.
C28_ConvergesToLedger ==
    (txn[1] = NoTxn /\ Hook.error = "none" /\ Channel.queue = <<>>) =>
        /\ \A n \in 1 .. Len(reservations) :
              reservations[n].venue_id = HookVenue =>
                  Cardinality({i \in DOMAIN Hook.bookings : Hook.bookings[i].id = n}) = 1
        /\ \A i \in DOMAIN Hook.bookings :
              /\ Hook.bookings[i].id \in 1 .. Len(reservations)
              /\ Hook.bookings[i].row = reservations[Hook.bookings[i].id]

====
